---- MODULE Spec2Model ----
(***************************************************************************)
(* ClawDBot provider-failover manager (src/bot.py, class LLMManager).      *)
(*                                                                         *)
(* The manager is one shared object driven by coroutines on one asyncio    *)
(* event loop: code between two awaits runs atomically, and the awaits on  *)
(* the network (session.post, resp.json) are the points where another      *)
(* coroutine may run.  Each action below is one such atomic stretch.       *)
(***************************************************************************)
EXTENDS Integers, Sequences, FiniteSets, TLC

\* ------------------------------------------------------------------ bounds
MaxCalls   == 2      \* generate() coroutines that may be in flight at once
MaxChecks  == 1      \* health_check() coroutines started by callers
MaxLatency == 1      \* distinct round-trip times a measurement may yield
MaxInFlight == 2     \* coroutines suspended on the network at once

Calls  == 1..MaxCalls
Checks == 0..MaxChecks        \* slot 0 is the probe issued by run()

\* Python's None, kept apart from every string the program produces.
None == "None"

\* ------------------------------------------------------------ environment
\* What a backend may do with one POST {api_base}/chat/completions; each
\* request draws its own outcome.
Kinds == {"ok", "empty", "malformed", "http_err", "timeout", "conn_err"}

\* resp.status of the answer; 0 stands for "no response was received".
Status(k) ==
  IF k \in {"ok", "empty", "malformed"} THEN 200
  ELSE IF k = "http_err" THEN 500 ELSE 0

\* result["choices"][0]["message"]["content"] of a well-formed 200 body.
Content(k) == IF k = "ok" THEN "text" ELSE ""

\* The exception class a failing outcome surfaces as inside the try block.
ExcClass(k) ==
  CASE k = "timeout"   -> "TimeoutError"
    [] k = "conn_err"  -> "ClientConnectorError"
    [] k = "http_err"  -> "Exception"
    [] k = "malformed" -> "KeyError"

\* str(e) of that exception.  asyncio.TimeoutError carries no message.
ExcStr(k) ==
  CASE k = "timeout"   -> ""
    [] k = "conn_err"  -> "Cannot connect to host"
    [] k = "malformed" -> "'choices'"

\* Faulty variants of the except clause, for testing the properties:
\* `except aiohttp.ClientError` and `except asyncio.TimeoutError`.
ExceptClientError(cls) == cls = "ClientConnectorError"

ExceptTimeoutError(cls) == cls = "TimeoutError"

\* `except Exception` catches every class above (all derive from Exception).
ExceptException(cls) ==
  cls \in {"TimeoutError", "ClientConnectorError", "Exception", "KeyError"}

\* ----------------------------------------------------------------- config
Config ==
  [LOCAL_LLM_API_BASE : {"", "http://tunnel/v1"},
   LOCAL_LLM_MODEL    : {""},
   LOCAL_LLM_TIMEOUT  : {60},
   OPENAI_API_KEY     : {None, "sk-key"},
   TELEGRAM_ALLOWED_IDS : {<<"7">>}]

\* Truthiness of an Optional[str].
Truthy(s) == s /= None /\ s /= ""

LLMProvider(name, api_base, model, api_key, timeout) ==
  [name |-> name, api_base |-> api_base, model |-> model,
   api_key |-> api_key, timeout |-> timeout,
   healthy |-> TRUE, last_error |-> None, latency_ms |-> 0]

\* Faulty variant of the registry construction, for testing the properties:
\* the fallback is appended before the primary.
SetupFallbackFirst(cfg) ==
  (IF Truthy(cfg.OPENAI_API_KEY)
     THEN << LLMProvider("OPENAI", "https://api.openai.com/v1",
                         "gpt-4o-mini", cfg.OPENAI_API_KEY, 30) >>
     ELSE << >>)
  \o
  (IF Truthy(cfg.LOCAL_LLM_API_BASE)
     THEN << LLMProvider("LOCAL", cfg.LOCAL_LLM_API_BASE,
                         IF Truthy(cfg.LOCAL_LLM_MODEL)
                           THEN cfg.LOCAL_LLM_MODEL ELSE "default",
                         None, cfg.LOCAL_LLM_TIMEOUT) >>
     ELSE << >>)

\* LLMManager._setup_providers: the registry built from the configuration.
setup_providers(cfg) ==
  (IF Truthy(cfg.LOCAL_LLM_API_BASE)
     THEN << LLMProvider("LOCAL", cfg.LOCAL_LLM_API_BASE,
                         IF Truthy(cfg.LOCAL_LLM_MODEL)
                           THEN cfg.LOCAL_LLM_MODEL ELSE "default",
                         None, cfg.LOCAL_LLM_TIMEOUT) >>
     ELSE << >>)
  \o
  (IF Truthy(cfg.OPENAI_API_KEY)
     THEN << LLMProvider("OPENAI", "https://api.openai.com/v1",
                         "gpt-4o-mini", cfg.OPENAI_API_KEY, 30) >>
     ELSE << >>)

\* ------------------------------------------------------------------ state
VARIABLES
  config,                  \* the Config the manager was built from
  providers,               \* LLMManager.providers (1-based sequence)
  current_provider_index,  \* LLMManager.current_provider_index (0-based)
  run_pc,                  \* position of run(): "init", "probe", "ready"
                           \* ("crashed" were the probe to raise)
  gen,                     \* the generate() coroutines
  hc,                      \* the health_check() coroutines
  front                    \* bot_state's counters, the Telegram handler in
                           \* progress and the last reply sent

vars ==
  <<config, providers, current_provider_index, run_pc, gen, hc, front>>

n == Len(providers)

\* An Optional[LLMProvider] that is None; providers are named by 0-based index.
NoProvider == -1

\* Faulty variant, for testing the properties: the current provider is the
\* first one marked healthy, the one at the index when none is.
FirstHealthyProvider ==
  IF n = 0 THEN NoProvider
  ELSE IF \E i \in 1..n : providers[i].healthy
    THEN (CHOOSE i \in 1..n : /\ providers[i].healthy
                              /\ \A j \in 1..(i - 1) : ~providers[j].healthy)
         - 1
    ELSE current_provider_index

\* LLMManager.current_provider: the provider at the index, None when empty.
current_provider == IF n = 0 THEN NoProvider ELSE current_provider_index

\* Faulty variants of the rotation, for testing the properties: no advance,
\* an advance by two, no wrap-around, a reset to the first provider.
SwitchStay(idx) == idx

SwitchSkip(idx) == IF n <= 1 THEN idx ELSE (idx + 2) % n

SwitchNoWrap(idx) == IF n <= 1 THEN idx ELSE idx + 1

SwitchReset(idx) == IF n <= 1 THEN idx ELSE 0

\* The index switch_to_next_provider leaves in current_provider_index.

switch_to_next_provider(idx) ==
  IF n <= 1 THEN idx ELSE (idx + 1) % n

\* ------------------------------------------------- generate(): local state
\* The result slot of a call that has not returned.
NoResult ==
  [raised |-> FALSE, success |-> FALSE, error |-> None,
   provider |-> None, model |-> None, content |-> None, latency_ms |-> -1]

GenIdle ==
  [pc |-> "idle", attempts |-> 0, max_attempts |-> 0, provider |-> 0,
   resp |-> None, measured |-> 0,
   \* history, for stating properties only: the index at entry, the
   \* providers contacted, whether each finished attempt got a well-formed
   \* 200, the rotations this call made, whether another call was in flight
   entry |-> 0, log |-> << >>, oks |-> << >>, rotations |-> 0,
   overlapped |-> FALSE,
   result |-> NoResult]

GenActive(c) == gen[c].pc \in {"post", "json"}

\* Faulty variant of the empty-registry result: no error text.
NoProvidersBlank ==
  [raised |-> FALSE, success |-> FALSE, error |-> "",
   provider |-> "NONE", model |-> None, content |-> None, latency_ms |-> -1]

NoProviders ==
  [raised |-> FALSE, success |-> FALSE, error |-> "No LLM providers configured",
   provider |-> "NONE", model |-> None, content |-> None, latency_ms |-> -1]

\* Faulty variant of the total-outage result: tagged with a real provider.
AllFailedTagged ==
  [raised |-> FALSE, success |-> FALSE, error |-> "All providers failed",
   provider |-> "LOCAL", model |-> None, content |-> None, latency_ms |-> -1]

AllFailed ==
  [raised |-> FALSE, success |-> FALSE, error |-> "All providers failed",
   provider |-> "NONE", model |-> None, content |-> None, latency_ms |-> -1]

Success(p, content) ==
  [raised |-> FALSE, success |-> TRUE, error |-> None,
   provider |-> p.name, model |-> p.model, content |-> content,
   latency_ms |-> p.latency_ms]

Raised(cls) ==
  [raised |-> TRUE, success |-> FALSE, error |-> cls,
   provider |-> None, model |-> None, content |-> None, latency_ms |-> -1]

\* Faulty variants of the loop condition, for testing the properties: one
\* attempt too many, and a single attempt.
LoopHeadExtra(rec, idx) ==
  IF rec.attempts <= rec.max_attempts
    THEN [rec EXCEPT !.pc = "post", !.provider = idx,
                     !.log = Append(@, idx)]
    ELSE [rec EXCEPT !.pc = "done", !.result = AllFailed]

LoopHeadOnce(rec, idx) ==
  IF rec.attempts < 1
    THEN [rec EXCEPT !.pc = "post", !.provider = idx,
                     !.log = Append(@, idx)]
    ELSE [rec EXCEPT !.pc = "done", !.result = AllFailed]

\* `while attempts < max_attempts: provider = self.current_provider; post`
\* or, once the loop is over, the final return.
LoopHead(rec, idx) ==
  IF rec.attempts < rec.max_attempts
    THEN [rec EXCEPT !.pc = "post", !.provider = idx,
                     !.log = Append(@, idx)]
    ELSE [rec EXCEPT !.pc = "done", !.result = AllFailed]

\* ---------------------------------------------- health_check(): local state
HcIdle ==
  [pc |-> "idle", arg |-> NoProvider, prov |-> NoProvider,
   raised |-> FALSE, ret |-> FALSE,
   kind |-> None]     \* history: the outcome the request met

\* The coroutines currently suspended on a network await.
InFlight ==
  Cardinality({c \in Calls : GenActive(c)})
    + Cardinality({h \in Checks : hc[h].pc = "post"})

\* A coroutine that has returned hands its result to its awaiter in the same
\* event-loop step; nothing else runs before the awaiter has seen it.
NoReturnPending ==
  /\ \A c \in Calls : gen[c].pc /= "done"
  /\ \A h \in Checks : hc[h].pc /= "done"

\* ------------------------------------------------- front end: local state
\* A message sent to the user (or the JSON served by the web endpoint): what
\* it is, whom it answers, and the provider it names.
Reply(kind, user, name, model, healthy) ==
  [kind |-> kind, user |-> user, name |-> name, model |-> model,
   healthy |-> healthy]

NoReply == Reply("none", 0, None, None, FALSE)

\* BotState() and the Telegram handler in progress: which handler (pc), for
\* which user, the position of health_command's loop over the providers.
FrontIdle ==
  [message_count |-> 0, error_count |-> 0,
   pc |-> "idle", user |-> 0, i |-> 0,
   \* history: the provider that served the last message, if it was served
   served |-> NoProvider,
   reply |-> NoReply]

\* ------------------------------------------------------------------- Init
Init ==
  /\ config \in Config
  /\ providers = setup_providers(config)
  /\ current_provider_index = 0
  /\ run_pc = "init"
  /\ gen = [c \in Calls |-> GenIdle]
  /\ hc = [h \in Checks |-> HcIdle]
  /\ front = FrontIdle

\* ------------------------------------------------------------- generate()
\* Faulty variant of the call entry, for testing the properties: every call
\* starts again from the first provider.
GenerateEnterReset(c) ==
  /\ run_pc = "ready"
  /\ NoReturnPending
  /\ InFlight < MaxInFlight
  /\ gen[c].pc = "idle"
  /\ IF n = 0
       THEN gen' = [gen EXCEPT ![c] =
                      [GenIdle EXCEPT !.pc = "done",
                                      !.entry = current_provider_index,
                                      !.result = NoProviders]]
       ELSE LET others == \E d \in Calls : d /= c /\ GenActive(d)
                rec == [GenIdle EXCEPT !.max_attempts = n,
                                       !.entry = current_provider_index,
                                       !.overlapped = others]
            IN gen' = [d \in Calls |->
                        IF d = c THEN LoopHead(rec, 0)
                        ELSE IF GenActive(d)
                          THEN [gen[d] EXCEPT !.overlapped = TRUE]
                          ELSE gen[d]]
  /\ current_provider_index' = 0
  /\ UNCHANGED <<front, config, providers, run_pc, hc>>

\* Call entry up to the first await: the empty-registry return, or the first
\* loop iteration up to session.post.
GenerateEnter(c) ==
  /\ run_pc = "ready"
  /\ NoReturnPending
  /\ InFlight < MaxInFlight
  /\ gen[c].pc = "idle"
  /\ IF n = 0
       THEN gen' = [gen EXCEPT ![c] =
                      [GenIdle EXCEPT !.pc = "done",
                                      !.entry = current_provider_index,
                                      !.result = NoProviders]]
       ELSE LET others == \E d \in Calls : d /= c /\ GenActive(d)
                rec == [GenIdle EXCEPT !.max_attempts = n,
                                       !.entry = current_provider_index,
                                       !.overlapped = others]
            IN gen' = [d \in Calls |->
                        IF d = c THEN LoopHead(rec, current_provider)
                        ELSE IF GenActive(d)
                          THEN [gen[d] EXCEPT !.overlapped = TRUE]
                          ELSE gen[d]]
  /\ UNCHANGED <<front, config, providers, current_provider_index, run_pc, hc>>

\* Faulty variants of the rotation guard: rotate after every failure, or
\* after none.
MoreToTryAlways(rec) == TRUE

MoreToTryNever(rec) == FALSE

\* `if attempts < max_attempts - 1`: rotate unless this was the last attempt.
MoreToTry(rec) == rec.attempts < rec.max_attempts - 1

\* Faulty variant of the except block, for testing the properties: the
\* diagnostic is stored but the provider is not marked unhealthy.
GenerateFailKeepsHealthy(c, cls, msg) ==
  LET rec == [gen[c] EXCEPT !.oks = Append(@, FALSE)]
      p   == rec.provider + 1
  IN IF ~ExceptException(cls)
       THEN /\ gen' = [gen EXCEPT ![c] =
                         [rec EXCEPT !.pc = "done", !.result = Raised(cls)]]
            /\ UNCHANGED <<providers, current_provider_index>>
       ELSE LET rotate == MoreToTry(rec)
                idx == IF rotate
                         THEN switch_to_next_provider(current_provider_index)
                         ELSE current_provider_index
                rec2 == [rec EXCEPT !.attempts = @ + 1,
                                    !.rotations = IF rotate THEN @ + 1 ELSE @]
            IN /\ providers' = [providers EXCEPT ![p].last_error = msg]
               /\ current_provider_index' = idx
               /\ gen' = [gen EXCEPT ![c] = LoopHead(rec2, idx)]

\* Faulty variant of the except block, for testing the properties: the
\* attempt is not counted.
GenerateFailNoCount(c, cls, msg) ==
  LET rec == [gen[c] EXCEPT !.oks = Append(@, FALSE)]
      p   == rec.provider + 1
  IN IF ~ExceptException(cls)
       THEN /\ gen' = [gen EXCEPT ![c] =
                         [rec EXCEPT !.pc = "done", !.result = Raised(cls)]]
            /\ UNCHANGED <<providers, current_provider_index>>
       ELSE LET rotate == MoreToTry(rec)
                idx == IF rotate
                         THEN switch_to_next_provider(current_provider_index)
                         ELSE current_provider_index
                rec2 == [rec EXCEPT !.rotations = IF rotate THEN @ + 1 ELSE @]
            IN /\ providers' = [providers EXCEPT ![p].healthy = FALSE,
                                                 ![p].last_error = msg]
               /\ current_provider_index' = idx
               /\ gen' = [gen EXCEPT ![c] = LoopHead(rec2, idx)]

\* Faulty variant of the except block, for testing the properties: the
\* failed provider is demoted by moving it to the end of the registry.
GenerateFailDemotes(c, cls, msg) ==
  LET rec == [gen[c] EXCEPT !.oks = Append(@, FALSE)]
      p   == rec.provider + 1
  IN IF ~ExceptException(cls)
       THEN /\ gen' = [gen EXCEPT ![c] =
                         [rec EXCEPT !.pc = "done", !.result = Raised(cls)]]
            /\ UNCHANGED <<providers, current_provider_index>>
       ELSE LET rec2 == [rec EXCEPT !.attempts = @ + 1]
                failed == [providers[p] EXCEPT !.healthy = FALSE,
                                               !.last_error = msg]
            IN /\ providers' =
                    Append(SubSeq(providers, 1, p - 1)
                             \o SubSeq(providers, p + 1, n), failed)
               /\ current_provider_index' = 0
               /\ gen' = [gen EXCEPT ![c] = LoopHead(rec2, 0)]

\* The except block of generate(): mark the provider, rotate unless this was
\* the last attempt, count the attempt, and go round the loop.  cls and msg
\* are the exception's class and str().
GenerateFail(c, cls, msg) ==
  LET rec == [gen[c] EXCEPT !.oks = Append(@, FALSE)]
      p   == rec.provider + 1
  IN IF ~ExceptException(cls)
       THEN /\ gen' = [gen EXCEPT ![c] =
                         [rec EXCEPT !.pc = "done", !.result = Raised(cls)]]
            /\ UNCHANGED <<providers, current_provider_index>>
       ELSE LET rotate == MoreToTry(rec)
                idx == IF rotate
                         THEN switch_to_next_provider(current_provider_index)
                         ELSE current_provider_index
                rec2 == [rec EXCEPT !.attempts = @ + 1,
                                    !.rotations = IF rotate THEN @ + 1 ELSE @]
            IN /\ providers' = [providers EXCEPT ![p].healthy = FALSE,
                                                 ![p].last_error = msg]
               /\ current_provider_index' = idx
               /\ gen' = [gen EXCEPT ![c] = LoopHead(rec2, idx)]

\* session.post completes: status 200 records latency and health and goes on
\* to read the body; anything else lands in the except block.
GenerateResponse(c, k) ==
  /\ NoReturnPending
  /\ gen[c].pc = "post"
  /\ LET p == gen[c].provider + 1
     IN IF Status(k) = 200
          THEN \E lat \in 1..MaxLatency :
                 /\ providers' = [providers EXCEPT ![p].latency_ms = lat,
                                                   ![p].healthy = TRUE]
                 /\ gen' = [gen EXCEPT ![c].pc = "json", ![c].resp = k,
                                       ![c].measured = lat]
                 /\ UNCHANGED current_provider_index
          ELSE GenerateFail(c, ExcClass(k),
                            IF k = "http_err" THEN "HTTP 500: body"
                                              ELSE ExcStr(k))
  /\ UNCHANGED <<front, config, run_pc, hc>>

\* Faulty variant of the success path: a call that was served rotates
\* before it returns.
GenerateBodyRotates(c) ==
  /\ NoReturnPending
  /\ gen[c].pc = "json"
  /\ LET p == gen[c].provider + 1
         k == gen[c].resp
     IN IF k = "malformed"
          THEN GenerateFail(c, ExcClass(k), ExcStr(k))
          ELSE /\ gen' = [gen EXCEPT ![c].pc = "done",
                            ![c].oks = Append(@, TRUE),
                            ![c].result = Success(providers[p], Content(k))]
               /\ current_provider_index' =
                    switch_to_next_provider(current_provider_index)
               /\ UNCHANGED providers
  /\ UNCHANGED <<front, config, run_pc, hc>>

\* Faulty variant of the success path: the result is tagged with whatever
\* provider is current when the body arrives.
GenerateBodyCurrent(c) ==
  /\ NoReturnPending
  /\ gen[c].pc = "json"
  /\ LET p == gen[c].provider + 1
         k == gen[c].resp
     IN IF k = "malformed"
          THEN GenerateFail(c, ExcClass(k), ExcStr(k))
          ELSE /\ gen' = [gen EXCEPT ![c].pc = "done",
                            ![c].oks = Append(@, TRUE),
                            ![c].result =
                              Success(providers[current_provider_index + 1],
                                      Content(k))]
               /\ UNCHANGED <<providers, current_provider_index>>
  /\ UNCHANGED <<front, config, run_pc, hc>>

\* resp.json() completes: build the success dict, or fail on a body that
\* has no choices[0].message.content.
GenerateBody(c) ==
  /\ NoReturnPending
  /\ gen[c].pc = "json"
  /\ LET p == gen[c].provider + 1
         k == gen[c].resp
     IN IF k = "malformed"
          THEN GenerateFail(c, ExcClass(k), ExcStr(k))
          ELSE /\ gen' = [gen EXCEPT ![c].pc = "done",
                            ![c].oks = Append(@, TRUE),
                            ![c].result = Success(providers[p], Content(k))]
               /\ UNCHANGED <<providers, current_provider_index>>
  /\ UNCHANGED <<front, config, run_pc, hc>>

\* The awaiter of generate() takes the result.
GenerateReturn(c) ==
  /\ gen[c].pc = "done"
  /\ gen' = [gen EXCEPT ![c] = GenIdle]
  /\ UNCHANGED <<front, config, providers, current_provider_index, run_pc, hc>>

\* --------------------------------------------------------- health_check()
\* Faulty variant, for testing the properties: the default target is the
\* first provider of the registry.
HealthCheckBeginFirst(h, arg) ==
  LET prov == IF arg /= NoProvider THEN arg
              ELSE IF n = 0 THEN NoProvider ELSE 0
  IN IF prov = NoProvider
       THEN /\ hc' = [hc EXCEPT ![h] = [HcIdle EXCEPT !.pc = "done",
                                                      !.arg = arg,
                                                      !.ret = FALSE]]
            /\ UNCHANGED gen
       ELSE /\ hc' = [hc EXCEPT ![h] = [HcIdle EXCEPT !.pc = "post",
                                                      !.arg = arg,
                                                      !.prov = prov]]
            /\ UNCHANGED gen

\* `prov = provider or self.current_provider`, the None return, and the
\* stretch up to session.post.  arg is the provider passed, or NoProvider.
HealthCheckBegin(h, arg) ==
  LET prov == IF arg /= NoProvider THEN arg ELSE current_provider
  IN IF prov = NoProvider
       THEN /\ hc' = [hc EXCEPT ![h] = [HcIdle EXCEPT !.pc = "done",
                                                      !.arg = arg,
                                                      !.ret = FALSE]]
            /\ UNCHANGED gen
       ELSE /\ hc' = [hc EXCEPT ![h] = [HcIdle EXCEPT !.pc = "post",
                                                      !.arg = arg,
                                                      !.prov = prov]]
            /\ UNCHANGED gen

\* A caller (the /health command, a monitor) starts a health check.
HealthCheckStart(h, arg) ==
  /\ run_pc = "ready"
  /\ NoReturnPending
  /\ InFlight < MaxInFlight
  /\ h /= 0
  /\ hc[h].pc = "idle"
  /\ arg \in {NoProvider} \cup (0..(n - 1))
  /\ HealthCheckBegin(h, arg)
  /\ UNCHANGED <<front, config, providers, current_provider_index, run_pc>>

\* Faulty variant, for testing the properties: any response, whatever its
\* status, counts as healthy.
HealthCheckResponseAnyStatus(h, k) ==
  /\ NoReturnPending
  /\ hc[h].pc = "post"
  /\ LET p == hc[h].prov + 1
     IN IF Status(k) /= 0
          THEN \E lat \in 1..MaxLatency :
                 LET healthy == Status(k) /= 0
                 IN /\ providers' =
                         [providers EXCEPT
                            ![p].latency_ms = lat,
                            ![p].healthy = healthy,
                            ![p].last_error = IF healthy THEN @ ELSE "HTTP 500"]
                    /\ hc' = [hc EXCEPT ![h].pc = "done", ![h].ret = healthy,
                                         ![h].kind = k]
          ELSE IF ExceptException(ExcClass(k))
            THEN /\ providers' = [providers EXCEPT
                                    ![p].healthy = FALSE,
                                    ![p].last_error = ExcStr(k)]
                 /\ hc' = [hc EXCEPT ![h].pc = "done", ![h].ret = FALSE,
                                      ![h].kind = k]
            ELSE /\ hc' = [hc EXCEPT ![h].pc = "done", ![h].raised = TRUE,
                                      ![h].kind = k]
                 /\ UNCHANGED providers
  /\ UNCHANGED <<front, config, current_provider_index, run_pc, gen>>

\* Faulty variant, for testing the properties: a provider found healthy
\* becomes the current provider again.
HealthCheckResponseRestores(h, k) ==
  /\ NoReturnPending
  /\ hc[h].pc = "post"
  /\ LET p == hc[h].prov + 1
     IN IF Status(k) /= 0
          THEN \E lat \in 1..MaxLatency :
                 LET healthy == Status(k) = 200
                 IN /\ providers' =
                         [providers EXCEPT
                            ![p].latency_ms = lat,
                            ![p].healthy = healthy,
                            ![p].last_error = IF healthy THEN @ ELSE "HTTP 500"]
                    /\ hc' = [hc EXCEPT ![h].pc = "done", ![h].ret = healthy,
                                         ![h].kind = k]
          ELSE IF ExceptException(ExcClass(k))
            THEN /\ providers' = [providers EXCEPT
                                    ![p].healthy = FALSE,
                                    ![p].last_error = ExcStr(k)]
                 /\ hc' = [hc EXCEPT ![h].pc = "done", ![h].ret = FALSE,
                                      ![h].kind = k]
            ELSE /\ hc' = [hc EXCEPT ![h].pc = "done", ![h].raised = TRUE,
                                      ![h].kind = k]
                 /\ UNCHANGED providers
  /\ current_provider_index' =
       IF Status(k) = 200 THEN hc[h].prov ELSE current_provider_index
  /\ UNCHANGED <<front, config, run_pc, gen>>

\* session.post completes or fails inside health_check().
HealthCheckResponse(h, k) ==
  /\ NoReturnPending
  /\ hc[h].pc = "post"
  /\ LET p == hc[h].prov + 1
     IN IF Status(k) /= 0
          THEN \E lat \in 1..MaxLatency :
                 LET healthy == Status(k) = 200
                 IN /\ providers' =
                         [providers EXCEPT
                            ![p].latency_ms = lat,
                            ![p].healthy = healthy,
                            ![p].last_error = IF healthy THEN @ ELSE "HTTP 500"]
                    /\ hc' = [hc EXCEPT ![h].pc = "done", ![h].ret = healthy,
                                         ![h].kind = k]
          ELSE IF ExceptException(ExcClass(k))
            THEN /\ providers' = [providers EXCEPT
                                    ![p].healthy = FALSE,
                                    ![p].last_error = ExcStr(k)]
                 /\ hc' = [hc EXCEPT ![h].pc = "done", ![h].ret = FALSE,
                                      ![h].kind = k]
            ELSE /\ hc' = [hc EXCEPT ![h].pc = "done", ![h].raised = TRUE,
                                      ![h].kind = k]
                 /\ UNCHANGED providers
  /\ UNCHANGED <<front, config, current_provider_index, run_pc, gen>>

\* The awaiter of a caller's health_check() takes the boolean.
HealthCheckReturn(h) ==
  /\ h /= 0
  /\ hc[h].pc = "done"
  /\ hc' = [hc EXCEPT ![h] = HcIdle]
  /\ UNCHANGED <<front, config, providers, current_provider_index, run_pc, gen>>

\* ------------------------------------------------------------------ run()
\* run(): build the manager (Init) and issue the initial health check when
\* there are providers.
RunStart ==
  /\ run_pc = "init"
  /\ IF n > 0
       THEN /\ HealthCheckBegin(0, NoProvider)
            /\ run_pc' = "probe"
       ELSE /\ run_pc' = "ready"
            /\ UNCHANGED <<gen, hc>>
  /\ UNCHANGED <<front, config, providers, current_provider_index>>

\* Faulty variant, for testing the properties: run() moves to the fallback
\* whatever the probe answered.
RunProbedAlways ==
  /\ run_pc = "probe"
  /\ hc[0].pc = "done"
  /\ IF hc[0].raised
       THEN /\ run_pc' = "crashed"
            /\ UNCHANGED current_provider_index
       ELSE /\ run_pc' = "ready"
            /\ current_provider_index' =
                 IF n > 1
                   THEN switch_to_next_provider(current_provider_index)
                   ELSE current_provider_index
  /\ hc' = [hc EXCEPT ![0] = HcIdle]
  /\ UNCHANGED <<front, config, providers, gen>>

\* run() resumes with the probe's answer: an unhealthy primary is rotated
\* away from when there is a fallback; then the handlers are registered.
RunProbed ==
  /\ run_pc = "probe"
  /\ hc[0].pc = "done"
  /\ IF hc[0].raised
       THEN /\ run_pc' = "crashed"
            /\ UNCHANGED current_provider_index
       ELSE /\ run_pc' = "ready"
            /\ current_provider_index' =
                 IF ~hc[0].ret /\ n > 1
                   THEN switch_to_next_provider(current_provider_index)
                   ELSE current_provider_index
  /\ hc' = [hc EXCEPT ![0] = HcIdle]
  /\ UNCHANGED <<front, config, providers, gen>>

\* ----------------------------------------------------------------- rotate
\* A direct call of switch_to_next_provider().  The program calls it from
\* run() and from inside generate() only; a call from outside is taken
\* between generate() calls.
Rotate ==
  /\ run_pc = "ready"
  /\ NoReturnPending
  /\ \A c \in Calls : ~GenActive(c)
  /\ current_provider_index' = switch_to_next_provider(current_provider_index)
  /\ UNCHANGED <<front, config, providers, run_pc, gen, hc>>

\* ------------------------------------------------------------------- Next
Next ==
  \/ RunStart
  \/ RunProbed
  \/ \E c \in Calls : GenerateEnter(c)
  \/ \E c \in Calls, k \in Kinds : GenerateResponse(c, k)
  \/ \E c \in Calls : GenerateBody(c)
  \/ \E c \in Calls : GenerateReturn(c)
  \/ \E h \in Checks, arg \in {NoProvider, 0, 1} : HealthCheckStart(h, arg)
  \/ \E h \in Checks, k \in Kinds : HealthCheckResponse(h, k)
  \/ \E h \in Checks : HealthCheckReturn(h)
  \/ Rotate

Spec == Init /\ [][Next]_vars

\* The outcomes drawn under the fair scheduling: a well-formed 200, a 200
\* with a malformed body, a non-200 status (one failure of session.post
\* stands for all of them: they take the same path through the except block).
LiveKinds == {"ok", "malformed", "http_err"}

\* generate() and health_check() calls as the handlers issue them: the
\* handlers never call switch_to_next_provider() themselves.
LiveNext ==
  \/ RunStart
  \/ RunProbed
  \/ \E c \in Calls : GenerateEnter(c)
  \/ \E c \in Calls, k \in LiveKinds : GenerateResponse(c, k)
  \/ \E c \in Calls : GenerateBody(c)
  \/ \E c \in Calls : GenerateReturn(c)
  \/ \E h \in Checks, arg \in {NoProvider, 0, 1} : HealthCheckStart(h, arg)
  \/ \E h \in Checks, k \in LiveKinds : HealthCheckResponse(h, k)
  \/ \E h \in Checks : HealthCheckReturn(h)

\* The scheduling the event loop gives: every outbound request of a
\* generate() call eventually completes (with a response, an error or the
\* timeout the request carries), also when other coroutines keep running in
\* between, and a coroutine that has returned resumes its awaiter.
Fairness ==
  /\ \A c \in Calls :
       /\ SF_vars(\E k \in LiveKinds : GenerateResponse(c, k))
       /\ SF_vars(GenerateBody(c))
       /\ WF_vars(GenerateReturn(c))
  /\ \A h \in Checks : WF_vars(HealthCheckReturn(h))

LiveSpec == Init /\ [][LiveNext]_vars /\ Fairness

\* The same operations with no two of them in flight together: a coroutine
\* is started only when none is suspended on the network.
SeqNext ==
  \/ RunStart
  \/ RunProbed
  \/ \E c \in Calls : InFlight = 0 /\ GenerateEnter(c)
  \/ \E c \in Calls, k \in Kinds : GenerateResponse(c, k)
  \/ \E c \in Calls : GenerateBody(c)
  \/ \E c \in Calls : GenerateReturn(c)
  \/ \E h \in Checks, arg \in {NoProvider, 0, 1} :
        InFlight = 0 /\ HealthCheckStart(h, arg)
  \/ \E h \in Checks, k \in Kinds : HealthCheckResponse(h, k)
  \/ \E h \in Checks : HealthCheckReturn(h)
  \/ Rotate

SeqSpec == Init /\ [][SeqNext]_vars

\* -------------------------------------------------------------- front end
MaxMessages == 2

\* Telegram user ids of the senders: 7 is on the allowed list, 42 is not.
Users == {7, 42}

\* update.message.text: a text, or nothing.
Texts == {"", "hi"}

\* str() of a non-negative int: its decimal digits.
RECURSIVE Str(_)
Str(i) ==
  LET Digits == <<"0", "1", "2", "3", "4", "5", "6", "7", "8", "9">>
  IN IF i < 10 THEN Digits[i + 1]
               ELSE Str(i \div 10) \o Digits[(i % 10) + 1]

\* Faulty variant, for testing the properties: the list is not consulted.
IsAuthorizedAnyone(user_id, cfg) == TRUE

\* is_authorized: `str(user_id) in config.TELEGRAM_ALLOWED_IDS`.
is_authorized(user_id, cfg) ==
  \E j \in 1..Len(cfg.TELEGRAM_ALLOWED_IDS) :
    cfg.TELEGRAM_ALLOWED_IDS[j] = Str(user_id)

\* The reply every handler gives a sender who is not on the list.
Unauthorized(u) ==
  /\ front' = [front EXCEPT !.reply = Reply("Unauthorized.", u, None, None,
                                             FALSE)]
  /\ UNCHANGED <<config, providers, current_provider_index, run_pc, gen, hc>>

\* Updates are dispatched one at a time once run() has started polling: a
\* handler starts when no handler is in progress.
HandlerReady ==
  /\ run_pc = "ready"
  /\ NoReturnPending
  /\ front.pc = "idle"

\* A handler that runs to its reply without awaiting the manager: it reads
\* the state as it is when the request arrives, also while a generate() or a
\* health_check() is waiting for its response.
ReaderReady ==
  /\ run_pc = "ready"
  /\ NoReturnPending

\* start_command (/start, /help).
StartCommand(u) ==
  /\ ReaderReady
  /\ IF ~is_authorized(u, config)
       THEN Unauthorized(u)
       ELSE /\ front' = [front EXCEPT !.reply = Reply("start", u, None, None,
                                                       FALSE)]
            /\ UNCHANGED <<config, providers, current_provider_index,
                           run_pc, gen, hc>>

\* Faulty variant, for testing the properties: /status reports the primary.
StatusCommandPrimary(u) ==
  /\ ReaderReady
  /\ IF ~is_authorized(u, config)
       THEN Unauthorized(u)
       ELSE /\ front' = [front EXCEPT !.reply =
                           IF n = 0
                             THEN Reply("status", u, "N/A", "N/A", FALSE)
                             ELSE Reply("status", u, providers[1].name,
                                        providers[1].model, FALSE)]
            /\ UNCHANGED <<config, providers, current_provider_index,
                           run_pc, gen, hc>>

\* status_command: the counters and the current provider's name and model.
StatusCommand(u) ==
  /\ ReaderReady
  /\ IF ~is_authorized(u, config)
       THEN Unauthorized(u)
       ELSE /\ front' = [front EXCEPT !.reply =
                           IF current_provider = NoProvider
                             THEN Reply("status", u, "N/A", "N/A", FALSE)
                             ELSE Reply("status", u,
                                        providers[current_provider + 1].name,
                                        providers[current_provider + 1].model,
                                        FALSE)]
            /\ UNCHANGED <<config, providers, current_provider_index,
                           run_pc, gen, hc>>

\* model_command: the current provider, or that there is none.
ModelCommand(u) ==
  /\ ReaderReady
  /\ IF ~is_authorized(u, config)
       THEN Unauthorized(u)
       ELSE /\ front' = [front EXCEPT !.reply =
                           IF current_provider = NoProvider
                             THEN Reply("No LLM providers configured.", u,
                                        None, None, FALSE)
                             ELSE Reply("model", u,
                                        providers[current_provider + 1].name,
                                        providers[current_provider + 1].model,
                                        providers[current_provider + 1].healthy)]
            /\ UNCHANGED <<config, providers, current_provider_index,
                           run_pc, gen, hc>>

\* web_health_handler: GET /health, open to anyone.
WebHealth ==
  /\ ReaderReady
  /\ front' = [front EXCEPT !.reply =
                 IF current_provider = NoProvider
                   THEN Reply("web", 0, "none", "none", FALSE)
                   ELSE Reply("web", 0,
                              providers[current_provider + 1].name,
                              providers[current_provider + 1].model,
                              providers[current_provider + 1].healthy)]
  /\ UNCHANGED <<config, providers, current_provider_index, run_pc, gen, hc>>

\* message_handler up to its first await past the checks: authorization,
\* empty text, the message counter, the empty registry; then the typing
\* indicator is being sent.
MessageHandler(u, text) ==
  /\ HandlerReady
  /\ IF ~is_authorized(u, config)
       THEN Unauthorized(u)
       ELSE IF text = ""
         THEN UNCHANGED vars
         ELSE /\ front.message_count < MaxMessages
              /\ front' =
                   IF n = 0
                     THEN [front EXCEPT
                             !.message_count = @ + 1,
                             !.reply = Reply("No LLM providers are configured.",
                                             u, None, None, FALSE)]
                     ELSE [front EXCEPT !.message_count = @ + 1,
                                        !.pc = "message", !.user = u]
              /\ UNCHANGED <<config, providers, current_provider_index,
                             run_pc, gen, hc>>

\* message_handler after send_chat_action (whose failure is swallowed):
\* `result = await llm_mgr.generate(messages)` up to generate()'s first await.
MessageGenerate(c) ==
  /\ front.pc = "message"
  /\ \A d \in Calls : gen[d].pc = "idle"
  /\ GenerateEnter(c)

\* message_handler resumes with the result: the answer is sent, or the
\* error counter goes up and the failure notice is sent.
MessageReply(c) ==
  /\ front.pc = "message"
  /\ gen[c].pc = "done"
  /\ LET res == gen[c].result
     IN front' =
          IF res.raised
            THEN [front EXCEPT !.pc = "idle", !.user = 0,
                               !.served = NoProvider]
          ELSE IF res.success
            THEN [front EXCEPT
                    !.pc = "idle", !.user = 0,
                    !.served = gen[c].provider,
                    !.reply = Reply("answer", front.user, res.provider,
                                    res.model, FALSE)]
            ELSE [front EXCEPT
                    !.pc = "idle", !.user = 0,
                    !.error_count = @ + 1,
                    !.served = NoProvider,
                    !.reply = Reply("Failed to generate response.",
                                    front.user, None, None, FALSE)]
  /\ gen' = [gen EXCEPT ![c] = GenIdle]
  /\ UNCHANGED <<config, providers, current_provider_index, run_pc, hc>>

\* health_command up to "Running health checks...".
HealthCommand(u) ==
  /\ HandlerReady
  /\ IF ~is_authorized(u, config)
       THEN Unauthorized(u)
       ELSE /\ front' =
                 IF n = 0
                   THEN [front EXCEPT
                           !.reply = Reply("No LLM providers configured.",
                                           u, None, None, FALSE)]
                   ELSE [front EXCEPT
                           !.pc = "health", !.user = u, !.i = 0,
                           !.reply = Reply("Running health checks...",
                                           u, None, None, FALSE)]
            /\ UNCHANGED <<config, providers, current_provider_index,
                           run_pc, gen, hc>>

\* health_command's loop, first iteration: health_check(providers[0]).
HealthCommandLoop(h) ==
  /\ front.pc = "health"
  /\ NoReturnPending
  /\ h /= 0
  /\ \A g \in Checks : hc[g].pc = "idle"
  /\ HealthCheckBegin(h, front.i)
  /\ UNCHANGED <<front, config, providers, current_provider_index, run_pc>>

\* health_command resumes with a health_check()'s answer: the next provider
\* is checked, or the report is sent.
HealthCommandNext(h) ==
  /\ front.pc = "health"
  /\ h /= 0
  /\ hc[h].pc = "done"
  /\ IF ~hc[h].raised /\ front.i + 1 < n
       THEN /\ HealthCheckBegin(h, front.i + 1)
            /\ front' = [front EXCEPT !.i = @ + 1]
       ELSE /\ hc' = [hc EXCEPT ![h] = HcIdle]
            /\ front' = [front EXCEPT
                           !.pc = "idle", !.user = 0, !.i = 0,
                           !.reply =
                             IF hc[h].raised THEN @
                             ELSE Reply("LLM Health Report", front.user,
                                        None, None, FALSE)]
            /\ UNCHANGED gen
  /\ UNCHANGED <<config, providers, current_provider_index, run_pc>>

\* The program: run(), then the handlers and the web endpoint, which are the
\* only callers of generate() and health_check().
FrontNext ==
  \/ RunStart
  \/ RunProbed
  \/ \E u \in Users : StartCommand(u)
  \/ \E u \in Users : StatusCommand(u)
  \/ \E u \in Users : ModelCommand(u)
  \/ WebHealth
  \/ \E u \in Users, text \in Texts : MessageHandler(u, text)
  \/ \E c \in Calls : MessageGenerate(c)
  \/ \E c \in Calls, k \in Kinds : GenerateResponse(c, k)
  \/ \E c \in Calls : GenerateBody(c)
  \/ \E c \in Calls : MessageReply(c)
  \/ \E u \in Users : HealthCommand(u)
  \/ \E h \in Checks : HealthCommandLoop(h)
  \/ \E h \in Checks, k \in Kinds : HealthCheckResponse(h, k)
  \/ \E h \in Checks : HealthCommandNext(h)

FrontSpec == Init /\ [][FrontNext]_vars

TypeOK ==
  /\ config \in Config
  /\ run_pc \in {"init", "probe", "ready", "crashed"}
  /\ current_provider_index \in Nat

\* ================================================================= claims
Done(c) == gen[c].pc = "done"

Started(c) == gen[c].pc /= "idle"

\* C1: while no other generate() call is in flight, a call on n >= 1
\* providers has made at most n attempts, and they target pairwise distinct
\* providers in the cyclic order entry, entry+1, ... (mod n).
C1_AttemptsDistinctCyclic ==
  \A c \in Calls :
    (Started(c) /\ ~gen[c].overlapped /\ n >= 1) =>
      LET log == gen[c].log
      IN /\ Len(log) <= n
         /\ \A j \in 1..Len(log) : log[j] = (gen[c].entry + j - 1) % n
         /\ \A i, j \in 1..Len(log) : i /= j => log[i] /= log[j]

C1_Witness ==
  \E c \in Calls :
    /\ Done(c) /\ ~gen[c].overlapped
    /\ gen[c].log = <<1, 0>>

\* C2 as stated: if the provider at the call-entry index answers 200 with a
\* well-formed body, the call makes exactly one attempt, rotates nothing, and
\* the index after the call equals the index at entry.
C2_FirstSucceedsIndexKept ==
  \A c \in Calls :
    (Done(c) /\ Len(gen[c].oks) >= 1 /\ gen[c].oks[1]) =>
      /\ Len(gen[c].log) = 1
      /\ gen[c].rotations = 0
      /\ current_provider_index = gen[c].entry

\* C2 amended: under that condition the call makes exactly one attempt and
\* rotates nothing itself; the index after the call equals the index at
\* entry when no other generate() call was in flight with it.
C2_FirstSucceedsNoRotation ==
  \A c \in Calls :
    (Done(c) /\ Len(gen[c].oks) >= 1 /\ gen[c].oks[1]) =>
      /\ Len(gen[c].log) = 1
      /\ gen[c].rotations = 0
      /\ gen[c].result.success
      /\ ~gen[c].overlapped => current_provider_index = gen[c].entry

C2_Witness ==
  \E c \in Calls :
    /\ Done(c) /\ ~gen[c].overlapped
    /\ gen[c].oks = <<TRUE>>
    /\ gen[c].entry = 1
    /\ current_provider_index = 1

\* C3 as stated: within one call, after a failed attempt on provider i that
\* is not the last, the next attempt targets provider (i + 1) mod n.
C3_NextAttemptIsSuccessor ==
  \A c \in Calls :
    \A j \in 1..(Len(gen[c].log) - 1) :
      gen[c].log[j + 1] = (gen[c].log[j] + 1) % n

\* C3 amended: the same, for a call with which no other generate() call was
\* in flight.
C3_NextAttemptIsSuccessorAlone ==
  \A c \in Calls :
    ~gen[c].overlapped =>
      \A j \in 1..(Len(gen[c].log) - 1) :
        /\ ~gen[c].oks[j]
        /\ gen[c].log[j + 1] = (gen[c].log[j] + 1) % n

C3_Witness ==
  \E c \in Calls :
    /\ gen[c].pc = "post" /\ ~gen[c].overlapped
    /\ gen[c].log = <<0, 1>>
    /\ current_provider_index = 1

\* C4: when every attempt of a call fails and no other generate() call was
\* in flight with it, the call returns {success: false, provider: "NONE"}
\* after n attempts and n - 1 rotations, and the index is left at
\* (entry + n - 1) mod n, which differs from entry when n >= 2.
C4_AllFailIndexSticks ==
  \A c \in Calls :
    (/\ Done(c) /\ ~gen[c].overlapped /\ n >= 1
     /\ \A j \in 1..Len(gen[c].oks) : ~gen[c].oks[j]) =>
      /\ ~gen[c].result.success
      /\ ~gen[c].result.raised
      /\ gen[c].result.provider = "NONE"
      /\ Len(gen[c].log) = n
      /\ gen[c].rotations = n - 1
      /\ current_provider_index = (gen[c].entry + n - 1) % n
      /\ n >= 2 => current_provider_index /= gen[c].entry

C4_Witness ==
  \E c \in Calls :
    /\ Done(c) /\ ~gen[c].overlapped
    /\ n = 2 /\ gen[c].entry = 0
    /\ gen[c].oks = <<FALSE, FALSE>>
    /\ current_provider_index = 1

\* C5: on an empty registry generate() returns at once a failure result with
\* provider "NONE" and a non-empty error, having contacted nobody and with
\* the index as it was at entry.
C5_EmptyRegistry ==
  \A c \in Calls :
    n = 0 =>
      /\ gen[c].pc \in {"idle", "done"}
      /\ Done(c) =>
           /\ ~gen[c].result.success
           /\ ~gen[c].result.raised
           /\ gen[c].result.provider = "NONE"
           /\ gen[c].result.error \notin {None, ""}
           /\ gen[c].log = << >>
           /\ current_provider_index = gen[c].entry

C5_Witness ==
  \E c \in Calls : Done(c) /\ n = 0

\* The reachability assignments a finished call is consistent with: every
\* provider it contacted answered a well-formed 200 exactly when reachable.
ConsistentWith(c, R) ==
  \A j \in 1..Len(gen[c].oks) : R[gen[c].log[j]] = gen[c].oks[j]

\* How far the first reachable provider is from s in cyclic order.
DistToReachable(s, R) ==
  CHOOSE k \in 0..(n - 1) :
    /\ R[(s + k) % n]
    /\ \A i \in 0..(k - 1) : ~R[(s + i) % n]

\* C6: with the operations run one at a time, for every reachability
\* assignment with a reachable provider a call entered at s returns success
\* tagged with the first reachable provider in cyclic order from s; the k
\* providers before it were each attempted once and are healthy=false, and
\* the index ends at (s + k) mod n.
C6_FirstReachableServes ==
  \A c \in Calls :
    (Done(c) /\ n >= 1) =>
      \A R \in [0..(n - 1) -> BOOLEAN] :
        (ConsistentWith(c, R) /\ \E q \in 0..(n - 1) : R[q]) =>
          LET s == gen[c].entry
              k == DistToReachable(s, R)
              q == (s + k) % n
          IN /\ gen[c].result.success
             /\ gen[c].result.provider = providers[q + 1].name
             /\ Len(gen[c].log) = k + 1
             /\ \A i \in 0..(k - 1) :
                  /\ gen[c].log[i + 1] = (s + i) % n
                  /\ ~providers[((s + i) % n) + 1].healthy
             /\ gen[c].log[k + 1] = q
             /\ current_provider_index = q

C6_Witness ==
  \E c \in Calls :
    /\ Done(c)
    /\ gen[c].entry = 0 /\ gen[c].log = <<0, 1>>
    /\ gen[c].result.success /\ gen[c].result.provider = "OPENAI"
    /\ providers[1].name = "LOCAL" /\ ~providers[1].healthy
    /\ current_provider_index = 1

\* C7: no backend outcome makes generate() raise: a call that has returned
\* has returned a success result or a failure result.
C7_GenerateNeverRaises ==
  \A c \in Calls :
    /\ ~gen[c].result.raised
    /\ Done(c) =>
         \/ gen[c].result.success /\ gen[c].result.provider /= "NONE"
         \/ ~gen[c].result.success /\ gen[c].result.provider = "NONE"

C7_Witness ==
  \E c \in Calls :
    /\ Done(c) /\ ~gen[c].result.success
    /\ gen[c].log = <<0, 1>>
    /\ providers[1].last_error = "'choices'"
    /\ providers[2].last_error = ""

\* C8: health_check() never raises and returns a boolean for every network
\* outcome; with an empty registry and no provider passed it returns false
\* without a request.
C8_HealthCheckNeverRaises ==
  \A h \in Checks :
    /\ ~hc[h].raised
    /\ hc[h].ret \in BOOLEAN
    /\ hc[h].pc = "post" => hc[h].prov /= NoProvider
    /\ (hc[h].pc = "done" /\ hc[h].prov = NoProvider) =>
         (n = 0 /\ hc[h].ret = FALSE /\ hc[h].kind = None)

C8_Witness ==
  \E h \in Checks :
    /\ hc[h].pc = "done"
    /\ hc[h].kind = "conn_err"
    /\ hc[h].ret = FALSE

\* C9: with a non-empty registry, 0 <= current_provider_index < len(providers)
\* in every reachable state.
C9_IndexInRange ==
  n > 0 => (0 <= current_provider_index /\ current_provider_index < n)

C9_Witness ==
  /\ run_pc = "ready"
  /\ n = 2
  /\ current_provider_index = 0
  /\ \E c \in Calls : gen[c].rotations = 1 /\ gen[c].entry = 1

\* C10 as stated: every success result carries non-empty content, the name
\* and model of the provider that served it, and the latency measured for
\* that attempt.
C10_SuccessResultComplete ==
  \A c \in Calls :
    (Done(c) /\ gen[c].result.success) =>
      LET p == providers[gen[c].provider + 1]
      IN /\ gen[c].result.content \notin {None, ""}
         /\ gen[c].result.provider = p.name
         /\ gen[c].result.model = p.model
         /\ gen[c].result.latency_ms = gen[c].measured

\* C11: every failure result carries provider "NONE" and a non-empty error,
\* in the empty-registry case and in the all-providers-failed case alike; no
\* failure result names a real provider and no success result names "NONE".
C11_FailureResultShape ==
  \A c \in Calls :
    (Done(c) /\ ~gen[c].result.raised) =>
      /\ ~gen[c].result.success =>
           /\ gen[c].result.provider = "NONE"
           /\ gen[c].result.error \notin {None, ""}
           /\ \A i \in 1..n : gen[c].result.provider /= providers[i].name
      /\ gen[c].result.success =>
           /\ gen[c].result.provider /= "NONE"
           /\ \E i \in 1..n : gen[c].result.provider = providers[i].name

C11_Witness ==
  \E c \in Calls :
    /\ Done(c) /\ ~gen[c].result.success
    /\ n = 2
    /\ gen[c].result.error = "All providers failed"

\* C12 as stated: once a generate() attempt or a health_check() against a
\* provider has answered 200, that provider's last_error is absent, whatever
\* an earlier failure had put there.
C12_LastErrorCleared ==
  /\ \A c \in Calls :
       (Done(c) /\ gen[c].result.success) =>
         providers[gen[c].provider + 1].last_error = None
  /\ \A h \in Checks :
       (hc[h].pc = "done" /\ hc[h].ret) =>
         providers[hc[h].prov + 1].last_error = None

\* C13: a switch_to_next_provider() step sets current_provider_index to
\* (index + 1) mod len(providers) when there are at least 2 providers and
\* leaves it alone when there are 0 or 1, and it changes no provider's
\* healthy, last_error or latency_ms; the rotations made inside generate()
\* advance the index the same way, and no step of the program moves the
\* index in any other way.
C13_RotateContract ==
  [][ /\ Rotate =>
           /\ current_provider_index' =
                IF n >= 2 THEN (current_provider_index + 1) % n
                          ELSE current_provider_index
           /\ Len(providers') = n
           /\ \A i \in 1..n :
                /\ providers'[i].healthy = providers[i].healthy
                /\ providers'[i].last_error = providers[i].last_error
                /\ providers'[i].latency_ms = providers[i].latency_ms
      \* the rotations generate() makes after a failed attempt
      /\ \A c \in Calls :
           (GenActive(c) /\ gen'[c].rotations = gen[c].rotations + 1) =>
             current_provider_index' =
               IF n >= 2 THEN (current_provider_index + 1) % n
                         ELSE current_provider_index
      /\ current_provider_index' /= current_provider_index =>
           /\ n >= 2
           /\ current_provider_index' = (current_provider_index + 1) % n
    ]_vars

\* Index 1 with no provider ever marked failed: reached only by a direct
\* switch_to_next_provider() on two providers.
C13_Witness ==
  /\ n = 2
  /\ current_provider_index = 1
  /\ \A i \in 1..n : providers[i].healthy /\ providers[i].last_error = None

\* C14: for each combination of local endpoint present/absent and OpenAI key
\* present/absent the registry is [LOCAL if the endpoint is present] followed
\* by [OPENAI if the key is present] (LOCAL first, names unique, empty when
\* both are absent), at all times; the OPENAI entry has the fixed base, model
\* and 30-second timeout; and as constructed every provider is healthy with
\* no last_error and latency 0, and current_provider_index is 0.
C14_RegistryConstruction ==
  LET hasLocal  == config.LOCAL_LLM_API_BASE \notin {None, ""}
      hasOpenAI == config.OPENAI_API_KEY \notin {None, ""}
  IN /\ n = (IF hasLocal THEN 1 ELSE 0) + (IF hasOpenAI THEN 1 ELSE 0)
     /\ hasLocal => /\ providers[1].name = "LOCAL"
                     /\ providers[1].api_base = config.LOCAL_LLM_API_BASE
     /\ hasOpenAI => /\ providers[n].name = "OPENAI"
                      /\ providers[n].api_base = "https://api.openai.com/v1"
                      /\ providers[n].model = "gpt-4o-mini"
                      /\ providers[n].timeout = 30
                      /\ providers[n].api_key = config.OPENAI_API_KEY
     /\ \A i, j \in 1..n : providers[i].name = providers[j].name => i = j
     /\ run_pc = "init" =>
          /\ current_provider_index = 0
          /\ \A i \in 1..n : /\ providers[i].healthy
                              /\ providers[i].last_error = None
                              /\ providers[i].latency_ms = 0

C14_Witness ==
  /\ run_pc = "init"
  /\ n = 2
  /\ providers[1].name = "LOCAL"
  /\ providers[2].name = "OPENAI"

\* C15: a health_check() called without a provider targets the provider at
\* current_provider_index at the moment of the call (one called with a
\* provider targets that one), and a step of a health_check() changes only
\* its target's healthy, last_error and latency_ms: current_provider_index,
\* every other provider, the target's other fields and the generate() calls
\* are left alone.
C15_HealthCheckTargetAndFrame ==
  [][ \A h \in Checks :
        (hc[h].pc \in {"idle", "post"} /\ hc'[h] /= hc[h]) =>
          /\ current_provider_index' = current_provider_index
          /\ gen' = gen
          /\ Len(providers') = n
          /\ hc[h].pc = "idle" =>
               /\ providers' = providers
               /\ hc'[h].arg = NoProvider =>
                    IF n = 0
                      THEN hc'[h].pc = "done" /\ ~hc'[h].ret
                      ELSE /\ hc'[h].pc = "post"
                           /\ hc'[h].prov = current_provider_index
               /\ hc'[h].arg /= NoProvider =>
                    hc'[h].pc = "post" /\ hc'[h].prov = hc'[h].arg
          /\ hc[h].pc = "post" =>
               \A i \in 1..n :
                 IF i = hc[h].prov + 1
                   THEN /\ providers'[i].name = providers[i].name
                        /\ providers'[i].api_base = providers[i].api_base
                        /\ providers'[i].model = providers[i].model
                        /\ providers'[i].api_key = providers[i].api_key
                        /\ providers'[i].timeout = providers[i].timeout
                   ELSE providers'[i] = providers[i]
    ]_vars

\* A health check called without a provider while the index was 1 has failed
\* on the second provider and left the first untouched.
C15_Witness ==
  \E h \in Checks :
    /\ hc[h].pc = "done"
    /\ hc[h].arg = NoProvider
    /\ hc[h].prov = 1
    /\ current_provider_index = 1
    /\ ~providers[2].healthy
    /\ providers[2].last_error = "HTTP 500"
    /\ providers[1].healthy
    /\ providers[1].last_error = None

\* C16 as stated: also when generate() calls overlap, every call contacts
\* each provider at most once.
C16_EachProviderAtMostOnce ==
  \A c \in Calls :
    \A i, j \in 1..Len(gen[c].log) :
      i /= j => gen[c].log[i] /= gen[c].log[j]

\* C16 amended: also when generate() calls overlap, every call makes at most
\* len(providers) attempts, each on a provider of the registry, and a call
\* moves to the next attempt only after the previous one failed; a call can
\* contact the same provider twice, and it does so only when another
\* generate() call was in flight during it.
C16_AtMostLenAttempts ==
  \A c \in Calls :
    LET log == gen[c].log
    IN /\ Len(log) <= n
       /\ Len(log) <= gen[c].max_attempts
       /\ \A j \in 1..Len(log) : log[j] \in 0..(n - 1)
       /\ \A j \in 1..(Len(log) - 1) : ~gen[c].oks[j]
       /\ (\E i, j \in 1..Len(log) : i /= j /\ log[i] = log[j])
            => gen[c].overlapped

\* A call is on its second attempt against the provider it already tried.
C16_Witness ==
  \E c \in Calls :
    /\ gen[c].pc = "post"
    /\ gen[c].overlapped
    /\ n = 2
    /\ gen[c].log = <<0, 0>>

\* C17 as stated: a call returns "All providers failed" only if it attempted
\* every provider of the registry and each attempt failed.
C17_AllFailedMeansAllAttempted ==
  \A c \in Calls :
    (Done(c) /\ gen[c].result = AllFailed) =>
      /\ \A i \in 0..(n - 1) :
           \E j \in 1..Len(gen[c].log) : gen[c].log[j] = i
      /\ \A j \in 1..Len(gen[c].oks) : ~gen[c].oks[j]

\* C17 amended: a call returns "All providers failed" only after
\* len(providers) attempts of its own that all failed; these cover every
\* provider when no other generate() call was in flight during it, and can
\* miss a provider (one that never failed at all, too) when one was.
C17_AllFailedMeansLenFailures ==
  \A c \in Calls :
    (Done(c) /\ gen[c].result = AllFailed) =>
      /\ n >= 1
      /\ Len(gen[c].log) = n
      /\ Len(gen[c].oks) = n
      /\ \A j \in 1..n : ~gen[c].oks[j]
      /\ ~gen[c].overlapped =>
           \A i \in 0..(n - 1) : \E j \in 1..n : gen[c].log[j] = i

\* Total outage is reported by a call that tried the first provider twice,
\* while the second provider has never failed.
C17_Witness ==
  \E c \in Calls :
    /\ Done(c)
    /\ gen[c].result = AllFailed
    /\ gen[c].overlapped
    /\ gen[c].log = <<0, 0>>
    /\ providers[2].healthy
    /\ providers[2].last_error = None

\* A step taken by generate() call c: an await of c returns.
GenStep(c) ==
  /\ GenActive(c)
  /\ gen'[c].pc /= gen[c].pc \/ gen'[c].oks /= gen[c].oks

\* C18: in every interleaving of overlapping generate() calls, a success
\* result carries the name and model of the provider the call's last request
\* went to (the one that answered 200), and the provider-field writes of an
\* attempt land on the provider that was contacted and on no other, also
\* when current_provider_index was rotated meanwhile.
C18_ResultNamesContactedProvider ==
  /\ [](\A c \in Calls :
          (Done(c) /\ gen[c].result.success) =>
            LET log == gen[c].log
            IN /\ Len(log) >= 1
               /\ gen[c].provider = log[Len(log)]
               /\ gen[c].oks[Len(log)]
               /\ gen[c].result.provider = providers[log[Len(log)] + 1].name
               /\ gen[c].result.model = providers[log[Len(log)] + 1].model)
  /\ [][ \A c \in Calls :
          GenStep(c) =>
            LET p == gen[c].provider + 1
            IN /\ gen[c].provider = gen[c].log[Len(gen[c].log)]
               /\ \A i \in 1..n : i /= p => providers'[i] = providers[i]
               \* the 200 is recorded on the contacted provider
               /\ gen'[c].pc = "json" => providers'[p].healthy
               \* so is a failure
               /\ (Len(gen'[c].oks) > Len(gen[c].oks)
                     /\ ~gen'[c].oks[Len(gen'[c].oks)]) =>
                    /\ ~providers'[p].healthy
                    /\ providers'[p].last_error /= None
      ]_vars

\* A call is served by the provider it contacted although the index has
\* been rotated to the other provider while its request was in flight.
C18_Witness ==
  \E c \in Calls :
    /\ Done(c)
    /\ gen[c].result.success
    /\ gen[c].overlapped
    /\ n = 2
    /\ current_provider_index /= gen[c].provider
    /\ gen[c].result.provider = providers[gen[c].provider + 1].name
    /\ providers[gen[c].provider + 1].healthy

\* The kinds of failed attempt inside generate().
FailureKinds == {"timeout", "conn_err", "http_err", "malformed"}

\* The step in which attempt of call c fails in kind k: the request fails
\* outright, or its 200 turns out to carry a malformed body.
FailStep(c, k) ==
  IF k = "malformed"
    THEN gen[c].pc = "json" /\ gen[c].resp = k /\ GenerateBody(c)
    ELSE GenerateResponse(c, k)

\* C19: the step in which an attempt of generate() fails, whatever the kind
\* (timeout, connection error, non-200 status, 200 with malformed body),
\* leaves the attempted provider with healthy = false and last_error taken
\* from that failure, before the next request is sent or the call returns;
\* and the rotation, the attempt count and what the call does next are the
\* same function of the attempt number for all four kinds.
C19_FailureMarksAndRotates ==
  [][ \A c \in Calls, k \in FailureKinds :
        FailStep(c, k) =>
          LET p    == gen[c].provider + 1
              more == gen[c].attempts < gen[c].max_attempts - 1
          IN /\ ~providers'[p].healthy
             /\ providers'[p].last_error /= None
             /\ providers'[p].last_error =
                  (CASE k = "timeout"   -> ""
                     [] k = "conn_err"  -> "Cannot connect to host"
                     [] k = "http_err"  -> "HTTP 500: body"
                     [] k = "malformed" -> "'choices'")
             /\ ~gen'[c].result.raised
             /\ gen'[c].attempts = gen[c].attempts + 1
             /\ current_provider_index' =
                  IF more /\ n >= 2 THEN (current_provider_index + 1) % n
                                    ELSE current_provider_index
             /\ IF more
                  THEN /\ gen'[c].pc = "post"
                       /\ gen'[c].provider = current_provider_index'
                  ELSE /\ gen'[c].pc = "done"
                       /\ gen'[c].result = AllFailed
    ]_vars

\* A call alone in flight met a 200 with a malformed body on the first
\* provider, which is now marked unhealthy, and is trying the second.
C19_Witness ==
  \E c \in Calls :
    /\ gen[c].pc = "post"
    /\ ~gen[c].overlapped
    /\ gen[c].log = <<0, 1>>
    /\ gen[c].oks = <<FALSE>>
    /\ ~providers[1].healthy
    /\ providers[1].last_error = "'choices'"
    /\ providers[1].latency_ms >= 1

\* C20: the step that ends a health_check() round-trip.  With a response:
\* the target's healthy becomes (status = 200), its latency_ms is overwritten
\* with the measured time, the return value is the new healthy, and on a
\* non-200 last_error is set to the status.  With no response (timeout or
\* connection failure): healthy becomes false, last_error is set, false is
\* returned and latency_ms keeps its previous value.
C20_HealthCheckOutcome ==
  [][ \A h \in Checks, k \in Kinds :
        HealthCheckResponse(h, k) =>
          LET p == hc[h].prov + 1
          IN /\ hc'[h].pc = "done"
             /\ ~hc'[h].raised
             /\ IF k \in {"ok", "empty", "malformed", "http_err"}
                  THEN /\ providers'[p].healthy = (k /= "http_err")
                       /\ hc'[h].ret = providers'[p].healthy
                       /\ providers'[p].latency_ms \in 1..MaxLatency
                       /\ k = "http_err" =>
                            providers'[p].last_error = "HTTP 500"
                       /\ k /= "http_err" =>
                            providers'[p].last_error = providers[p].last_error
                  ELSE /\ ~providers'[p].healthy
                       /\ ~hc'[h].ret
                       /\ providers'[p].last_error /= None
                       /\ providers'[p].last_error =
                            (IF k = "timeout" THEN ""
                                              ELSE "Cannot connect to host")
                       /\ providers'[p].latency_ms = providers[p].latency_ms
    ]_vars

\* A health check timed out on a provider that had answered before: it
\* returned false and the provider keeps the latency measured earlier.
C20_Witness ==
  \E h \in Checks :
    /\ hc[h].pc = "done"
    /\ hc[h].kind = "timeout"
    /\ ~hc[h].ret
    /\ ~hc[h].raised
    /\ ~providers[hc[h].prov + 1].healthy
    /\ providers[hc[h].prov + 1].last_error = ""
    /\ providers[hc[h].prov + 1].latency_ms = 1

\* C21 as stated: a health_check() that met a non-200 status, a timeout, a
\* connection failure or a malformed response (an HTTP 200 whose body is not
\* a chat-completion answer included) has marked its target healthy = false,
\* set last_error and returned false.
C21_HealthCheckFailsOnEveryFailure ==
  \A h \in Checks :
    (hc[h].pc = "done"
       /\ hc[h].kind \in {"http_err", "timeout", "conn_err", "malformed"}) =>
      /\ ~hc[h].ret
      /\ ~providers[hc[h].prov + 1].healthy
      /\ providers[hc[h].prov + 1].last_error /= None

\* C22: a generate() call first contacts the provider at the
\* current_provider_index it finds at entry and entering or returning from a
\* call does not move the index; with calls that do not overlap, the index
\* moves only in a failed attempt of the call in flight, in a
\* switch_to_next_provider() between calls or in run()'s startup, so a call
\* starts where the previous call left the index, never back at 0.
C22_NextCallStartsWhereLeft ==
  [][ /\ \A c \in Calls :
           (gen[c].pc = "idle" /\ gen'[c].pc /= "idle") =>
             /\ current_provider_index' = current_provider_index
             /\ gen'[c].entry = current_provider_index
             /\ n > 0 => /\ gen'[c].pc = "post"
                          /\ gen'[c].provider = current_provider_index
                          /\ gen'[c].log = <<current_provider_index>>
      /\ \A c \in Calls :
           (gen[c].pc = "done" /\ gen'[c].pc = "idle") =>
             current_provider_index' = current_provider_index
      /\ current_provider_index' /= current_provider_index =>
           \/ Rotate
           \/ run_pc = "probe"
           \/ \E c \in Calls :
                /\ GenActive(c)
                /\ gen'[c].rotations = gen[c].rotations + 1
    ]_vars

\* A call alone in flight has started at index 1, where an earlier call
\* that failed on the first provider left the index.
C22_Witness ==
  \E c \in Calls :
    /\ gen[c].pc = "post"
    /\ ~gen[c].overlapped
    /\ gen[c].entry = 1
    /\ gen[c].log = <<1>>
    /\ current_provider_index = 1
    /\ providers[1].last_error = "HTTP 500: body"
    /\ providers[2].last_error = None

\* C24: the healthy flag never influences routing.  Whenever a generate()
\* call starts an attempt, the provider it contacts is the one at
\* current_provider_index at that moment, whether that provider's healthy
\* flag is true or false; no provider is ever removed from the registry.
C24_HealthyNeverRoutes ==
  [][ /\ Len(providers') = n
      /\ \A c \in Calls :
           Len(gen'[c].log) /= Len(gen[c].log) /\ gen'[c].pc = "post" =>
             /\ gen'[c].provider = current_provider_index'
             /\ gen'[c].log[Len(gen'[c].log)] = current_provider_index'
    ]_vars

\* After a call in which both providers failed, the next call is contacting
\* the provider at the index although it is marked unhealthy; the other has
\* been marked healthy again by a health check meanwhile.
C24_Witness ==
  \E c \in Calls :
    /\ gen[c].pc = "post"
    /\ ~gen[c].overlapped
    /\ n = 2
    /\ gen[c].log = <<1>>
    /\ current_provider_index = 1
    /\ ~providers[2].healthy
    /\ providers[2].last_error = "HTTP 500: body"
    /\ providers[1].healthy
    /\ providers[1].last_error = "HTTP 500: body"

\* C25: no step of generate(), health_check(), switch_to_next_provider() or
\* run() adds, removes or reorders providers or changes a provider's name,
\* endpoint, model, credential or timeout: the registry stays the one built
\* from the configuration, and only healthy, last_error, latency_ms and
\* current_provider_index change.
C25_RegistryImmutable ==
  /\ [](/\ Len(providers) = Len(setup_providers(config))
        /\ \A i \in 1..n :
             /\ providers[i].name = setup_providers(config)[i].name
             /\ providers[i].api_base = setup_providers(config)[i].api_base
             /\ providers[i].model = setup_providers(config)[i].model
             /\ providers[i].api_key = setup_providers(config)[i].api_key
             /\ providers[i].timeout = setup_providers(config)[i].timeout)
  /\ [][ /\ config' = config
         /\ Len(providers') = n
         /\ \A i \in 1..n :
              /\ providers'[i].name = providers[i].name
              /\ providers'[i].api_base = providers[i].api_base
              /\ providers'[i].model = providers[i].model
              /\ providers'[i].api_key = providers[i].api_key
              /\ providers'[i].timeout = providers[i].timeout
     ]_vars

\* Every mutable field has changed and the registry is still LOCAL, OPENAI.
C25_Witness ==
  /\ n = 2
  /\ current_provider_index = 1
  /\ ~providers[1].healthy
  /\ providers[1].last_error = "'choices'"
  /\ providers[1].latency_ms >= 1
  /\ ~providers[2].healthy
  /\ providers[2].last_error = "HTTP 500"
  /\ providers[2].latency_ms >= 1
  /\ providers[1].name = "LOCAL"
  /\ providers[2].name = "OPENAI"
  /\ providers[2].model = "gpt-4o-mini"

\* C26: if every outbound request eventually completes, every generate()
\* call that has started eventually returns a result, having made at most
\* len(providers) attempts of its own, also when other generate() and
\* health_check() calls keep interleaving with it.
C26_GenerateTerminates ==
  /\ \A c \in Calls : GenActive(c) ~> Done(c)
  /\ [](\A c \in Calls :
          /\ Len(gen[c].log) <= n
          /\ gen[c].attempts <= n
          /\ Done(c) => ~gen[c].result.raised)

\* A call that other calls interleaved with has returned after using up
\* its len(providers) attempts.
C26_Witness ==
  \E c \in Calls :
    /\ Done(c)
    /\ gen[c].overlapped
    /\ n = 2
    /\ Len(gen[c].log) = 2
    /\ gen[c].attempts = 2

\* C29: at startup run() probes the provider at index 0, once, before any
\* handler runs; when message handling begins current_provider_index is 1
\* exactly when that probe returned false and the registry has at least 2
\* providers, and 0 otherwise (probe succeeded, a single provider, or no
\* provider and no probe); a failed probe leaves provider 0 healthy = false.
C29_StartupProbe ==
  /\ [](/\ run_pc /= "crashed"
        /\ run_pc \in {"init", "probe"} =>
             /\ current_provider_index = 0
             /\ \A c \in Calls : gen[c].pc = "idle"
             /\ \A h \in Checks : h /= 0 => hc[h].pc = "idle"
        /\ run_pc = "probe" =>
             /\ n >= 1
             /\ hc[0].pc \in {"post", "done"}
             /\ hc[0].prov = 0
        /\ run_pc /= "probe" => hc[0].pc = "idle")
  /\ [][ (run_pc /= "ready" /\ run_pc' = "ready") =>
           LET failed == run_pc = "probe" /\ ~hc[0].ret
           IN /\ run_pc = "init" => n = 0
              /\ current_provider_index' = IF failed /\ n >= 2 THEN 1 ELSE 0
              /\ failed => /\ ~providers'[1].healthy
                            /\ providers'[1].last_error /= None
              /\ (run_pc = "probe" /\ hc[0].ret) => providers'[1].healthy
     ]_vars

\* Message handling has just begun on the fallback: the probe of the first
\* provider failed and nothing has touched the second.
C29_Witness ==
  /\ run_pc = "ready"
  /\ n = 2
  /\ current_provider_index = 1
  /\ ~providers[1].healthy
  /\ providers[1].last_error = "HTTP 500"
  /\ providers[1].latency_ms = 1
  /\ providers[2].healthy
  /\ providers[2].last_error = None
  /\ providers[2].latency_ms = 0
  /\ \A c \in Calls : gen[c].pc = "idle"
  /\ \A h \in Checks : hc[h].pc = "idle"

\* C23: once a message has been served by provider q (front.served), in a
\* call in which an earlier provider p may have failed, the index stays on q
\* between calls, whatever health checks find meanwhile; every later call
\* first contacts q, contacts nothing else if q succeeds, and reaches another
\* provider only as the attempt that follows a failed one.
C23_StickyRotation ==
  front.served /= NoProvider =>
    /\ (\A c \in Calls : gen[c].pc = "idle") =>
         current_provider_index = front.served
    /\ \A c \in Calls :
         Started(c) =>
           /\ gen[c].entry = front.served
           /\ gen[c].log[1] = front.served
           /\ \A j \in 2..Len(gen[c].log) : ~gen[c].oks[j - 1]
           /\ (Len(gen[c].oks) >= 1 /\ gen[c].oks[1]) =>
                /\ Len(gen[c].log) = 1
                /\ current_provider_index = front.served

\* The second provider served the last message after the first had failed;
\* a health check has marked the first healthy again, and the next message
\* has still gone to the second provider only.
C23_Witness ==
  \E c \in Calls :
    /\ front.served = 1
    /\ Done(c)
    /\ gen[c].result.success
    /\ gen[c].log = <<1>>
    /\ providers[1].last_error = "HTTP 500: body"
    /\ providers[1].healthy

\* The sender's id, written in decimal, is on the configured list.
OnAllowedList(u) ==
  \E j \in 1..Len(config.TELEGRAM_ALLOWED_IDS) :
    config.TELEGRAM_ALLOWED_IDS[j] = Str(u)

\* C27: generate() and health_check() (past startup) run only inside a
\* message or /health handler started by a user on the allowed list; and a
\* message or command from a sender who is not on it is answered with
\* "Unauthorized." and changes neither current_provider_index, nor a
\* provider, nor a call, nor the message and error counters.
C27_UnauthorizedDoesNothing ==
  /\ [](/\ front.pc /= "idle" => OnAllowedList(front.user)
        /\ (\E c \in Calls : gen[c].pc /= "idle") => front.pc = "message"
        /\ (\E h \in Checks : h /= 0 /\ hc[h].pc /= "idle") =>
             front.pc = "health")
  /\ [][ \A u \in Users :
          (/\ ~OnAllowedList(u)
           /\ \/ StartCommand(u)
              \/ StatusCommand(u)
              \/ ModelCommand(u)
              \/ HealthCommand(u)
              \/ \E text \in Texts : MessageHandler(u, text)) =>
            /\ front'.reply.kind = "Unauthorized."
            /\ front'.reply.user = u
            /\ front'.message_count = front.message_count
            /\ front'.error_count = front.error_count
            /\ front'.pc = front.pc
            /\ current_provider_index' = current_provider_index
            /\ providers' = providers
            /\ gen' = gen
            /\ hc' = hc
     ]_vars

\* A stranger has just been turned away, after one message of the allowed
\* user had been counted.
C27_Witness ==
  /\ front.reply.kind = "Unauthorized."
  /\ front.reply.user = 42
  /\ ~OnAllowedList(42)
  /\ OnAllowedList(7)
  /\ front.message_count = 1
  /\ front.pc = "idle"

\* A step of the web status endpoint or of the /status or /model command.
ReadStep == WebHealth \/ \E u \in Users : StatusCommand(u) \/ ModelCommand(u)

\* C28: handling the status endpoint, /status or /model, between or during
\* generate() calls, changes neither current_provider_index nor a provider
\* nor a call nor a counter; and the reply names the provider at
\* current_provider_index at that moment: "none" (endpoint) or "N/A"
\* (/status) when the registry is empty, where /model says that no provider
\* is configured.
C28_StatusReadOnly ==
  [][ /\ ReadStep =>
           /\ current_provider_index' = current_provider_index
           /\ providers' = providers
           /\ gen' = gen
           /\ hc' = hc
           /\ run_pc' = run_pc
           /\ front'.message_count = front.message_count
           /\ front'.error_count = front.error_count
           /\ front'.pc = front.pc
      /\ WebHealth =>
           /\ front'.reply.kind = "web"
           /\ IF n = 0
                THEN /\ front'.reply.name = "none"
                     /\ front'.reply.model = "none"
                     /\ ~front'.reply.healthy
                ELSE /\ front'.reply.name =
                          providers[current_provider_index + 1].name
                     /\ front'.reply.model =
                          providers[current_provider_index + 1].model
                     /\ front'.reply.healthy =
                          providers[current_provider_index + 1].healthy
      /\ \A u \in Users :
           (OnAllowedList(u) /\ StatusCommand(u)) =>
             /\ front'.reply.kind = "status"
             /\ front'.reply.user = u
             /\ IF n = 0
                  THEN /\ front'.reply.name = "N/A"
                       /\ front'.reply.model = "N/A"
                  ELSE /\ front'.reply.name =
                            providers[current_provider_index + 1].name
                       /\ front'.reply.model =
                            providers[current_provider_index + 1].model
      /\ \A u \in Users :
           (OnAllowedList(u) /\ ModelCommand(u)) =>
             /\ front'.reply.user = u
             /\ IF n = 0
                  THEN front'.reply.kind = "No LLM providers configured."
                  ELSE /\ front'.reply.kind = "model"
                       /\ front'.reply.name =
                            providers[current_provider_index + 1].name
                       /\ front'.reply.model =
                            providers[current_provider_index + 1].model
    ]_vars

\* /status was answered while the first message's generate() call was on its
\* second attempt: it names the provider the call has just rotated to.
C28_Witness ==
  \E c \in Calls :
    /\ GenActive(c)
    /\ front.message_count = 1
    /\ gen[c].log = <<0, 1>>
    /\ current_provider_index = 1
    /\ front.reply.kind = "status"
    /\ front.reply.name = "OPENAI"
    /\ front.reply.model = "gpt-4o-mini"

====
